---- MODULE Spec2Model ----
(***************************************************************************)
(* Model of agri_lib: the plant entities (BasePlant, Crop, Forest,         *)
(* Agriculture), the registry CropManager, the CropAnalyzer and the        *)
(* functions of utils.py.                                                  *)
(*                                                                         *)
(* Numbers.  The code computes with floats; the model computes with exact  *)
(* integers in fixed decimal units:                                        *)
(*   area                           thousandths of a hectare (10^-3)       *)
(*   yield, timber, carbon rates    hundredths               (10^-2)       *)
(*   yields, carbon, market value   area * rate ...          (10^-5)       *)
(*   prices                         whole units                            *)
(* x * 0.8 is (x * 8) \div 10 and x * 1.3 is (x * 13) \div 10; both         *)
(* divisions are exact on the values of the model, since every rate has at *)
(* most one decimal and every price is a multiple of 10.  round(x, 2)      *)
(* keeps the unit of x.  The areas drawn below are values whose sums and   *)
(* products are far from a rounding tie in binary floating point, so the   *)
(* exact arithmetic and the float arithmetic round alike.                  *)
(*                                                                         *)
(* Strings that the code passes through str.lower() are sequences of       *)
(* one-character strings; names, statuses and messages, which the code     *)
(* only compares or returns, are plain strings.                            *)
(***************************************************************************)
EXTENDS Integers, Sequences, FiniteSets, TLC

VARIABLES plants, ret, ent, th

vars == <<plants, ret, ent, th>>

----------------------------------------------------------------------------
(* Bounds and input sets *)

MaxPlants == 3

Names == {"a", "A"}

Areas == {0, 4, 100000}

SetterAreas == {-4, 0, 4}

(* the threads that call the analyzer at the same time *)
NThreads == 2

Threads == 1..NThreads

----------------------------------------------------------------------------
(* str.lower() *)

UpperChars ==
  <<"A","B","C","D","E","F","G","H","I","J","K","L","M",
    "N","O","P","Q","R","S","T","U","V","W","X","Y","Z">>

LowerChars ==
  <<"a","b","c","d","e","f","g","h","i","j","k","l","m",
    "n","o","p","q","r","s","t","u","v","w","x","y","z">>

LowerMap ==
  [c \in {UpperChars[i] : i \in 1..26} |->
     LowerChars[CHOOSE i \in 1..26 : UpperChars[i] = c]]

LowerChar(c) == IF c \in DOMAIN LowerMap THEN LowerMap[c] ELSE c

Lower(s) == [i \in 1..Len(s) |-> LowerChar(s[i])]

(* dict.get(key, default) *)
Get(table, key, default) == IF key \in DOMAIN table THEN table[key] ELSE default

----------------------------------------------------------------------------
(* String literals of the code, and the strings drawn as inputs *)

s_agriculture == <<"a","g","r","i","c","u","l","t","u","r","e">>
s_forestry    == <<"f","o","r","e","s","t","r","y">>
s_default     == <<"d","e","f","a","u","l","t">>
s_wheat       == <<"w","h","e","a","t">>
s_corn        == <<"c","o","r","n">>
s_rice        == <<"r","i","c","e">>
s_potato      == <<"p","o","t","a","t","o">>
s_soybean     == <<"s","o","y","b","e","a","n">>
s_cotton      == <<"c","o","t","t","o","n">>
s_pine        == <<"p","i","n","e">>
s_oak         == <<"o","a","k">>
s_eucalyptus  == <<"e","u","c","a","l","y","p","t","u","s">>
s_teak        == <<"t","e","a","k">>
s_bamboo      == <<"b","a","m","b","o","o">>

s_Forestry    == <<"F","o","r","e","s","t","r","y">>
s_orchard     == <<"o","r","c","h","a","r","d">>
s_Oak         == <<"O","a","k">>

Kinds == {s_agriculture, s_Forestry, s_orchard}

Subtypes == {s_Oak}

----------------------------------------------------------------------------
(* Entities *)

valid_statuses == <<"planted", "growing", "harvesting", "harvested", "dormant">>

(* BasePlant.__init__ with the subclass constructors: the record of a new  *)
(* entity.  cls is the Python class; is_organic is FALSE for the classes   *)
(* that have no such attribute.                                            *)
NewPlant(cls, name, area, subtype, is_organic) ==
  [cls |-> cls, name |-> name, area |-> area, status |-> "planted",
   subtype |-> Lower(subtype), is_organic |-> is_organic]

NewCrop(name, area, subtype) == NewPlant("Crop", name, area, subtype, FALSE)

NewForest(name, area, subtype) == NewPlant("Forest", name, area, subtype, FALSE)

NewAgriculture(name, area, subtype, is_organic) ==
  NewPlant("Agriculture", name, area, subtype, is_organic)

YIELD_RATES ==
  (s_wheat :> 350) @@ (s_corn :> 1000) @@ (s_rice :> 450) @@ (s_potato :> 4000) @@
  (s_soybean :> 280) @@ (s_cotton :> 180) @@ (s_default :> 500)

TIMBER_RATES ==
  (s_pine :> 1500) @@ (s_oak :> 800) @@ (s_eucalyptus :> 2500) @@ (s_teak :> 1000) @@
  (s_bamboo :> 2000) @@ (s_default :> 1200)

base_prices ==
  (s_wheat :> 250) @@ (s_corn :> 200) @@ (s_rice :> 350) @@ (s_potato :> 150) @@
  (s_soybean :> 400) @@ (s_cotton :> 1500) @@ (s_default :> 300)

(* the fallback rate forgotten: an unknown subtype yields nothing *)
CropYield_no_default(p) == p.area * Get(YIELD_RATES, p.subtype, 0)

CropYield(p) == p.area * Get(YIELD_RATES, p.subtype, YIELD_RATES[s_default])

ForestYield(p) == p.area * Get(TIMBER_RATES, p.subtype, TIMBER_RATES[s_default])

(* the organic penalty applied on the wrong branch *)
AgricultureYield_penalty_swapped(p) ==
  LET base_yield == CropYield(p)
  IN IF ~p.is_organic THEN (base_yield * 8) \div 10 ELSE base_yield

AgricultureYield(p) ==
  LET base_yield == CropYield(p)
  IN IF p.is_organic THEN (base_yield * 8) \div 10 ELSE base_yield

(* p.get_yield_estimate(), dispatched on the class of p *)
get_yield_estimate(p) ==
  IF p.cls = "Forest" THEN ForestYield(p)
  ELSE IF p.cls = "Agriculture" THEN AgricultureYield(p)
  ELSE CropYield(p)

get_market_value(p) ==
  LET price == Get(base_prices, p.subtype, base_prices[s_default])
      yield_tonnes == get_yield_estimate(p)
  IN IF p.is_organic THEN (yield_tonnes * price * 13) \div 10
     ELSE yield_tonnes * price

(* a Forest given a type of its own that no filter asks for *)
get_type_forest_apart(p) == IF p.cls = "Forest" THEN s_default ELSE s_agriculture

get_type(p) == IF p.cls = "Forest" THEN s_forestry ELSE s_agriculture

----------------------------------------------------------------------------
(* CropManager *)

RECURSIVE SumSeq(_)
SumSeq(s) == IF s = <<>> THEN 0 ELSE Head(s) + SumSeq(Tail(s))

get_all_crops(ps) == ps

(* the type compared as given, not lower-cased *)
get_crops_by_type_as_given(ps, plant_type) ==
  SelectSeq(ps, LAMBDA p : get_type(p) = plant_type)

get_crops_by_type(ps, plant_type) ==
  SelectSeq(ps, LAMBDA p : get_type(p) = Lower(plant_type))

(* the areas collected in a set before they are summed *)
get_total_area_distinct(ps) ==
  LET S == {ps[i].area : i \in 1..Len(ps)}
      RECURSIVE Sum(_)
      Sum(T) == IF T = {} THEN 0 ELSE LET x == CHOOSE y \in T : TRUE IN x + Sum(T \ {x})
  IN Sum(S)

get_total_area(ps) == SumSeq([i \in 1..Len(ps) |-> ps[i].area])

get_total_yield_estimate(ps) ==
  SumSeq([i \in 1..Len(ps) |-> get_yield_estimate(ps[i])])

(* del self._plants[i] *)
DelAt(ps, i) == [j \in 1..(Len(ps) - 1) |-> IF j < i THEN ps[j] ELSE ps[j + 1]]

(* value < 0 in place of value <= 0 *)
area_setter_accepts_zero(p, value) ==
  IF value < 0
  THEN [raised |-> TRUE, self |-> p]
  ELSE [raised |-> FALSE, self |-> [p EXCEPT !.area = value]]

(* the assignment made before the validation *)
status_setter_assigns_first(p, value) ==
  IF ~(\E i \in 1..Len(valid_statuses) : valid_statuses[i] = value)
  THEN [raised |-> TRUE, self |-> [p EXCEPT !.status = value]]
  ELSE [raised |-> FALSE, self |-> [p EXCEPT !.status = value]]

(* The property setters: raised is TRUE when the setter raises ValueError, *)
(* self is the entity after the call.                                      *)
area_setter(p, value) ==
  IF value <= 0
  THEN [raised |-> TRUE, self |-> p]
  ELSE [raised |-> FALSE, self |-> [p EXCEPT !.area = value]]

status_setter(p, value) ==
  IF ~(\E i \in 1..Len(valid_statuses) : valid_statuses[i] = value)
  THEN [raised |-> TRUE, self |-> p]
  ELSE [raised |-> FALSE, self |-> [p EXCEPT !.status = value]]

NoEnt == [cls |-> "none"]

(* a thread that is in no call of the analyzer: its frame is empty *)
Idle ==
  [op |-> "none", pc |-> "idle", agriculture |-> <<>>, forestry |-> <<>>,
   total_crops |-> 0, total_area |-> 0, agriculture_area |-> 0,
   forestry_area |-> 0, stats |-> <<>>, crops_detail |-> <<>>,
   total_carbon |-> <<>>, result |-> <<>>]

Init ==
  /\ plants = <<>>
  /\ ret = [op |-> "init", arg |-> <<>>, val |-> 0]
  /\ ent = NoEnt
  /\ th = [t \in Threads |-> Idle]

(* plant_type compared without .lower() *)
add_crop_case_sensitive(name, plant_type, area, subtype) ==
  /\ Len(plants) < MaxPlants
  /\ LET plant == IF plant_type = s_agriculture THEN NewCrop(name, area, subtype)
                  ELSE IF plant_type = s_forestry THEN NewForest(name, area, subtype)
                  ELSE NewCrop(name, area, subtype)
     IN /\ plants' = Append(plants, plant)
        /\ ret' = [op |-> "add_crop", arg |-> plant_type, val |-> plant]
  /\ UNCHANGED <<ent, th>>

(* every agriculture entity created as an organic Agriculture *)
add_crop_organic(name, plant_type, area, subtype) ==
  /\ Len(plants) < MaxPlants
  /\ LET plant == IF Lower(plant_type) = s_forestry THEN NewForest(name, area, subtype)
                  ELSE NewAgriculture(name, area, subtype, TRUE)
     IN /\ plants' = Append(plants, plant)
        /\ ret' = [op |-> "add_crop", arg |-> plant_type, val |-> plant]
  /\ UNCHANGED <<ent, th>>

add_crop(name, plant_type, area, subtype) ==
  /\ Len(plants) < MaxPlants
  /\ LET plant == IF Lower(plant_type) = s_agriculture THEN NewCrop(name, area, subtype)
                  ELSE IF Lower(plant_type) = s_forestry THEN NewForest(name, area, subtype)
                  ELSE NewCrop(name, area, subtype)
     IN /\ plants' = Append(plants, plant)
        /\ ret' = [op |-> "add_crop", arg |-> plant_type, val |-> plant]
  /\ UNCHANGED <<ent, th>>

(* every entity of that name removed, not only the first *)
remove_crop_all(name) ==
  /\ LET hits == {i \in 1..Len(plants) : plants[i].name = name}
     IN IF hits # {}
        THEN /\ plants' = SelectSeq(plants, LAMBDA q : q.name # name)
             /\ ret' = [op |-> "remove_crop", arg |-> <<name>>, val |-> TRUE]
        ELSE /\ plants' = plants
             /\ ret' = [op |-> "remove_crop", arg |-> <<name>>, val |-> FALSE]
  /\ UNCHANGED <<ent, th>>

remove_crop(name) ==
  /\ LET hits == {i \in 1..Len(plants) : plants[i].name = name}
     IN IF hits # {}
        THEN LET i == CHOOSE h \in hits : \A g \in hits : h <= g
             IN /\ plants' = DelAt(plants, i)
                /\ ret' = [op |-> "remove_crop", arg |-> <<name>>, val |-> TRUE]
        ELSE /\ plants' = plants
             /\ ret' = [op |-> "remove_crop", arg |-> <<name>>, val |-> FALSE]
  /\ UNCHANGED <<ent, th>>

(* plants[i].area = value, on an entity of the registry (add_crop and      *)
(* get_all_crops hand out the entity objects themselves)                   *)
set_area(i, value) ==
  /\ i \in 1..Len(plants)
  /\ LET r == area_setter(plants[i], value)
     IN /\ plants' = [plants EXCEPT ![i] = r.self]
        /\ ret' = [op |-> "set_area", arg |-> <<>>,
                   val |-> IF r.raised THEN "ValueError" ELSE "None"]
  /\ UNCHANGED <<ent, th>>

total_area ==
  /\ ret' = [op |-> "get_total_area", arg |-> <<>>, val |-> get_total_area(plants)]
  /\ UNCHANGED <<plants, ent, th>>

total_yield_estimate ==
  /\ ret' = [op |-> "get_total_yield_estimate", arg |-> <<>>,
             val |-> get_total_yield_estimate(plants)]
  /\ UNCHANGED <<plants, ent, th>>

----------------------------------------------------------------------------
(* CropAnalyzer *)

(* truncation in place of rounding *)
round2_truncate(x, step) == (x \div step) * step

(* round(x, 2) for x in units of which step make one hundredth: to the     *)
(* nearest multiple of step, an exact tie to the even multiple             *)
round2(x, step) ==
  LET q == x \div step
      r == x % step
  IN IF 2 * r < step THEN q * step
     ELSE IF 2 * r > step THEN (q + 1) * step
     ELSE IF q % 2 = 0 THEN q * step ELSE (q + 1) * step

get_statistics(ps) ==
  LET crops == get_all_crops(ps)
      agriculture == get_crops_by_type(ps, s_agriculture)
      forestry == get_crops_by_type(ps, s_forestry)
  IN [total_crops |-> Len(crops),
      total_area |-> round2(get_total_area(ps), 10),
      agriculture_count |-> Len(agriculture),
      forestry_count |-> Len(forestry),
      agriculture_area |->
        round2(SumSeq([i \in 1..Len(agriculture) |-> agriculture[i].area]), 10),
      forestry_area |->
        round2(SumSeq([i \in 1..Len(forestry) |-> forestry[i].area]), 10),
      total_yield_estimate |-> round2(get_total_yield_estimate(ps), 1000)]

(* the entity's own attribute dict handed out *)
to_dict_live(ps, i) ==
  [name |-> ps[i].name, area |-> ps[i].area, status |-> ps[i].status,
   type |-> get_type(ps[i]), view_of |-> i]

(* BasePlant.to_dict: a new dict holding copies of the attribute values.   *)
(* view_of is the index of the entity whose attributes a write to the dict *)
(* would reach; 0 says the dict is an object of its own.  days_planted,    *)
(* which no operation of the model reads, is left out.                     *)
to_dict(ps, i) ==
  [name |-> ps[i].name, area |-> ps[i].area, status |-> ps[i].status,
   type |-> get_type(ps[i]), view_of |-> 0]

(* the timber table read for the carbon rate *)
get_carbon_sequestration_timber(p) ==
  p.area * Get(TIMBER_RATES, p.subtype, TIMBER_RATES[s_default])

carbon_rates ==
  (s_pine :> 800) @@ (s_oak :> 650) @@ (s_eucalyptus :> 1500) @@ (s_teak :> 700) @@
  (s_bamboo :> 1200) @@ (s_default :> 800)

get_carbon_sequestration(p) ==
  p.area * Get(carbon_rates, p.subtype, carbon_rates[s_default])

Rec(text) == [text |-> text, figure |-> <<>>]

REC_START == Rec("Start by adding your first crop or forest plantation.")
REC_ADD_FORESTRY ==
  Rec("Consider adding forestry for carbon sequestration and diversification.")
REC_CARBON(n) ==
  [text |-> "Your forests sequester approximately {} tonnes of CO2 per year.",
   figure |-> <<n>>]
REC_PRECISION ==
  Rec("Consider implementing precision agriculture techniques for large-scale management.")
REC_DIVERSIFY ==
  Rec("Diversify your crops to reduce risk from market fluctuations and pests.")
REC_GOOD == Rec("Good crop diversification! This reduces overall risk.")

(* get_detailed_analysis with three of its tests open to change: the zero  *)
(* test made on the raw total area (zero_by_raw) instead of the rounded     *)
(* statistics, the entity count from which the positive note is given       *)
(* (good_from, 3 in the code), and the area above which precision           *)
(* agriculture is recommended (precision_above, 100 in the code)            *)
detailed_analysis_variant(ps, zero_by_raw, good_from, precision_above) ==
  LET stats == get_statistics(ps)
      crops == get_all_crops(ps)
      detail == [i \in 1..Len(crops) |-> to_dict(crops, i)]
      forestry_plants == get_crops_by_type(ps, s_forestry)
      total_carbon ==
        SumSeq([i \in 1..Len(forestry_plants) |->
                  IF forestry_plants[i].cls = "Forest"
                  THEN get_carbon_sequestration(forestry_plants[i]) ELSE 0])
      r1 == IF stats.agriculture_count > 0 /\ stats.forestry_count = 0
            THEN <<REC_ADD_FORESTRY>> ELSE <<>>
      r2 == IF stats.forestry_count > 0
            THEN <<REC_CARBON(round2(total_carbon, 1000))>> ELSE <<>>
      r3 == IF stats.total_area > precision_above THEN <<REC_PRECISION>> ELSE <<>>
      r4 == IF Len(crops) = 1 THEN <<REC_DIVERSIFY>>
            ELSE IF Len(crops) >= good_from THEN <<REC_GOOD>> ELSE <<>>
      zero == IF zero_by_raw THEN get_total_area(ps) = 0 ELSE stats.total_area = 0
  IN IF zero
     THEN [statistics |-> stats, crops_detail |-> detail,
           recommendations |-> <<REC_START>>, risk_assessment |-> "low",
           carbon_sequestration |-> <<>>]
     ELSE [statistics |-> stats, crops_detail |-> detail,
           recommendations |-> r1 \o r2 \o r3 \o r4,
           risk_assessment |-> IF Len(crops) = 1 THEN "medium" ELSE "low",
           carbon_sequestration |->
             IF stats.forestry_count > 0 THEN <<round2(total_carbon, 1000)>> ELSE <<>>]

(* elif len(crops) >= 2 in place of >= 3 *)
get_detailed_analysis_good_from_2(ps) == detailed_analysis_variant(ps, FALSE, 2, 100000)

(* the zero test made on get_total_area() instead of stats['total_area'] *)
get_detailed_analysis_raw_zero(ps) == detailed_analysis_variant(ps, TRUE, 3, 100000)

(* stats['total_area'] >= 100 in place of > 100 *)
get_detailed_analysis_from_100(ps) == detailed_analysis_variant(ps, FALSE, 3, 99999)

(* get_detailed_analysis on a registry that no other caller changes during *)
(* the call.  carbon is <<>> when the dict has no carbon_sequestration key *)
(* and <<n>> when it has.                                                  *)
(* forestry recommended whenever there is agriculture, forests or not *)
get_detailed_analysis_forestry_always(ps) ==
  LET stats == get_statistics(ps)
      crops == get_all_crops(ps)
      detail == [i \in 1..Len(crops) |-> to_dict(crops, i)]
      forestry_plants == get_crops_by_type(ps, s_forestry)
      total_carbon ==
        SumSeq([i \in 1..Len(forestry_plants) |->
                  get_carbon_sequestration(forestry_plants[i])])
      r1 == IF stats.agriculture_count > 0 THEN <<REC_ADD_FORESTRY>> ELSE <<>>
      r2 == IF stats.forestry_count > 0
            THEN <<REC_CARBON(round2(total_carbon, 1000))>> ELSE <<>>
      r3 == IF stats.total_area > 100000 THEN <<REC_PRECISION>> ELSE <<>>
      r4 == IF Len(crops) = 1 THEN <<REC_DIVERSIFY>>
            ELSE IF Len(crops) >= 3 THEN <<REC_GOOD>> ELSE <<>>
  IN IF stats.total_area = 0
     THEN [statistics |-> stats, crops_detail |-> detail,
           recommendations |-> <<REC_START>>, risk_assessment |-> "low",
           carbon_sequestration |-> <<>>]
     ELSE [statistics |-> stats, crops_detail |-> detail,
           recommendations |-> r1 \o r2 \o r3 \o r4,
           risk_assessment |-> IF Len(crops) = 1 THEN "medium" ELSE "low",
           carbon_sequestration |->
             IF stats.forestry_count > 0 THEN <<round2(total_carbon, 1000)>> ELSE <<>>]

get_detailed_analysis(ps) ==
  LET stats == get_statistics(ps)
      crops == get_all_crops(ps)
      detail == [i \in 1..Len(crops) |-> to_dict(crops, i)]
      forestry_plants == get_crops_by_type(ps, s_forestry)
      total_carbon ==
        SumSeq([i \in 1..Len(forestry_plants) |->
                  IF forestry_plants[i].cls = "Forest"
                  THEN get_carbon_sequestration(forestry_plants[i]) ELSE 0])
      r1 == IF stats.agriculture_count > 0 /\ stats.forestry_count = 0
            THEN <<REC_ADD_FORESTRY>> ELSE <<>>
      r2 == IF stats.forestry_count > 0
            THEN <<REC_CARBON(round2(total_carbon, 1000))>> ELSE <<>>
      r3 == IF stats.total_area > 100000 THEN <<REC_PRECISION>> ELSE <<>>
      r4 == IF Len(crops) = 1 THEN <<REC_DIVERSIFY>>
            ELSE IF Len(crops) >= 3 THEN <<REC_GOOD>> ELSE <<>>
  IN IF stats.total_area = 0
     THEN [statistics |-> stats, crops_detail |-> detail,
           recommendations |-> <<REC_START>>, risk_assessment |-> "low",
           carbon_sequestration |-> <<>>]
     ELSE [statistics |-> stats, crops_detail |-> detail,
           recommendations |-> r1 \o r2 \o r3 \o r4,
           risk_assessment |-> IF Len(crops) = 1 THEN "medium" ELSE "low",
           carbon_sequestration |->
             IF stats.forestry_count > 0 THEN <<round2(total_carbon, 1000)>> ELSE <<>>]

ADVICE_WINTER ==
  "Winter: Focus on planning next season, soil preparation, and pruning dormant trees."
ADVICE_SPRING ==
  "Spring: Ideal time for planting most crops. Monitor soil moisture and prepare irrigation."
ADVICE_SUMMER ==
  "Summer: Focus on pest management, irrigation, and early harvesting of some crops."
ADVICE_AUTUMN ==
  "Autumn: Harvest season for most crops. Prepare soil for winter crops."
ADVICE_GENERIC ==
  "Monitor your crops regularly and adjust care based on weather conditions."

(* December left out of the winter months *)
seasons_without_december ==
  << <<{1, 2}, ADVICE_WINTER>>, <<{3, 4, 5}, ADVICE_SPRING>>,
     <<{6, 7, 8}, ADVICE_SUMMER>>, <<{9, 10, 11}, ADVICE_AUTUMN>> >>

seasons ==
  << <<{12, 1, 2}, ADVICE_WINTER>>, <<{3, 4, 5}, ADVICE_SPRING>>,
     <<{6, 7, 8}, ADVICE_SUMMER>>, <<{9, 10, 11}, ADVICE_AUTUMN>> >>

(* the loop over seasons.items(): the advice of the first entry holding    *)
(* the month, the generic string when none does                            *)
get_seasonal_advice(current_month) ==
  LET hits == {k \in 1..Len(seasons) : current_month \in seasons[k][1]}
  IN IF hits # {}
     THEN seasons[CHOOSE k \in hits : \A j \in hits : k <= j][2]
     ELSE ADVICE_GENERIC

Months == 0..13

statistics ==
  /\ ret' = [op |-> "get_statistics", arg |-> <<>>, val |-> get_statistics(plants)]
  /\ UNCHANGED <<plants, ent, th>>

detailed_analysis ==
  /\ ret' = [op |-> "get_detailed_analysis", arg |-> <<>>,
             val |-> get_detailed_analysis(plants)]
  /\ UNCHANGED <<plants, ent, th>>

seasonal_advice(current_month) ==
  /\ ret' = [op |-> "get_seasonal_advice", arg |-> <<current_month>>,
             val |-> get_seasonal_advice(current_month)]
  /\ UNCHANGED <<plants, ent, th>>

crops_by_type(plant_type) ==
  /\ ret' = [op |-> "get_crops_by_type", arg |-> plant_type,
             val |-> get_crops_by_type(plants, plant_type)]
  /\ UNCHANGED <<plants, ent, th>>

(* The caller writes value to the area entry of the i-th dict of           *)
(* crops_detail of the analysis it was handed.                             *)
write_detail(i, value) ==
  /\ ret.op = "get_detailed_analysis"
  /\ i \in 1..Len(ret.val.crops_detail)
  /\ ret' = [ret EXCEPT !.op = "write_detail",
                        !.val.crops_detail[i].area = value]
  /\ LET v == ret.val.crops_detail[i].view_of
     IN IF v = 0 THEN plants' = plants
        ELSE plants' = [plants EXCEPT ![v].area = value]
  /\ UNCHANGED <<ent, th>>

AddCrop == \E n \in Names, k \in Kinds, a \in Areas, s \in Subtypes : add_crop(n, k, a, s)

RemoveCrop == \E n \in Names : remove_crop(n)

SetArea == \E i \in 1..MaxPlants, v \in SetterAreas : set_area(i, v)

CropsByType == \E k \in Kinds : crops_by_type(k)

SeasonalAdvice == \E m \in {1, 13} : seasonal_advice(m)

WriteDetail == \E i \in 1..MaxPlants : write_detail(i, 7)

----------------------------------------------------------------------------
(* One entity constructed and used directly, outside any registry *)

CalcAreas == {4, 125}

CalcSetterAreas == {-125, 0, 4, 125}

s_Corn  == <<"C","o","r","n">>
s_PINE  == <<"P","I","N","E">>
s_mango == <<"m","a","n","g","o">>

CalcSubtypes ==
  {s_wheat, s_corn, s_rice, s_potato, s_soybean, s_cotton, s_default,
   s_pine, s_oak, s_eucalyptus, s_teak, s_bamboo, s_Corn, s_PINE, s_mango}

StatusInputs ==
  {"planted", "growing", "harvesting", "harvested", "dormant", "Planted", "ripe", ""}

new_crop(area, subtype) ==
  /\ ent' = NewCrop("a", area, subtype)
  /\ ret' = [op |-> "Crop", arg |-> subtype, val |-> "None"]
  /\ UNCHANGED <<plants, th>>

new_forest(area, subtype) ==
  /\ ent' = NewForest("a", area, subtype)
  /\ ret' = [op |-> "Forest", arg |-> subtype, val |-> "None"]
  /\ UNCHANGED <<plants, th>>

new_agriculture(area, subtype, is_organic) ==
  /\ ent' = NewAgriculture("a", area, subtype, is_organic)
  /\ ret' = [op |-> "Agriculture", arg |-> subtype, val |-> "None"]
  /\ UNCHANGED <<plants, th>>

ent_set_area(value) ==
  /\ ent # NoEnt
  /\ LET r == area_setter(ent, value)
     IN /\ ent' = r.self
        /\ ret' = [op |-> "set_area", arg |-> <<value>>,
                   val |-> IF r.raised THEN "ValueError" ELSE "None"]
  /\ UNCHANGED <<plants, th>>

ent_set_status(value) ==
  /\ ent # NoEnt
  /\ LET r == status_setter(ent, value)
     IN /\ ent' = r.self
        /\ ret' = [op |-> "set_status", arg |-> <<value>>,
                   val |-> IF r.raised THEN "ValueError" ELSE "None"]
  /\ UNCHANGED <<plants, th>>

ent_yield_estimate ==
  /\ ent # NoEnt
  /\ ret' = [op |-> "get_yield_estimate", arg |-> <<>>, val |-> get_yield_estimate(ent)]
  /\ UNCHANGED <<plants, ent, th>>

ent_market_value ==
  /\ ent # NoEnt
  /\ ent.cls = "Agriculture"
  /\ ret' = [op |-> "get_market_value", arg |-> <<>>, val |-> get_market_value(ent)]
  /\ UNCHANGED <<plants, ent, th>>

Construct ==
  \E a \in CalcAreas, s \in CalcSubtypes :
    \/ new_crop(a, s)
    \/ new_forest(a, s)
    \/ \E o \in BOOLEAN : new_agriculture(a, s, o)

EntSetArea == \E v \in CalcSetterAreas : ent_set_area(v)

EntSetStatus == \E v \in StatusInputs : ent_set_status(v)

SeasonalAdviceAll == \E m \in Months : seasonal_advice(m)

NextCalc ==
  \/ Construct
  \/ EntSetArea
  \/ EntSetStatus
  \/ ent_yield_estimate
  \/ ent_market_value
  \/ SeasonalAdviceAll

SpecCalc == Init /\ [][NextCalc]_vars

Next ==
  \/ AddCrop
  \/ RemoveCrop
  \/ SetArea
  \/ total_area
  \/ total_yield_estimate
  \/ statistics
  \/ detailed_analysis
  \/ SeasonalAdvice
  \/ WriteDetail

Spec == Init /\ [][Next]_vars

----------------------------------------------------------------------------
(* A registry of few entities drawn from every tree type and areas of      *)
(* whole hectares, for the figures of the analysis                         *)

MaxWide == 2

WideAreas == {4, 5000, 10000}

(* name, kind and subtype of the entities added; "orchard" is a kind       *)
(* add_crop does not know                                                  *)
WideEntities ==
  {<<"FieldA", s_agriculture, s_wheat>>, <<"FieldA", s_agriculture, s_mango>>,
   <<"FieldA", s_orchard, s_wheat>>,
   <<"WoodsB", s_forestry, s_pine>>, <<"WoodsB", s_Forestry, s_Oak>>,
   <<"WoodsB", s_forestry, s_eucalyptus>>, <<"WoodsB", s_forestry, s_teak>>,
   <<"WoodsB", s_forestry, s_bamboo>>, <<"WoodsB", s_forestry, s_mango>>}

AddWide ==
  /\ Len(plants) < MaxWide
  /\ \E e \in WideEntities, a \in WideAreas : add_crop(e[1], e[2], a, e[3])

NextWide ==
  \/ AddWide
  \/ total_area
  \/ total_yield_estimate
  \/ CropsByType
  \/ statistics
  \/ detailed_analysis

SpecWide == Init /\ [][NextWide]_vars

----------------------------------------------------------------------------

(* The functions of utils.py, called on their own *)

yield_rates ==
  (s_wheat :> 350) @@ (s_corn :> 1000) @@ (s_rice :> 450) @@ (s_potato :> 4000) @@
  (s_soybean :> 280) @@ (s_cotton :> 180) @@ (s_pine :> 1500) @@ (s_oak :> 800) @@
  (s_eucalyptus :> 2500)

prices ==
  (s_wheat :> 250) @@ (s_corn :> 200) @@ (s_rice :> 350) @@ (s_potato :> 150) @@
  (s_soybean :> 400) @@ (s_cotton :> 1500) @@ (s_pine :> 100) @@ (s_oak :> 150) @@
  (s_eucalyptus :> 80)

(* calculate_yield_estimate with the organic factors open to change: the   *)
(* yield is multiplied by yield_tenths / 10, the price by price_tenths / 10 *)
yield_estimate_variant(area, crop_type, is_organic, yield_tenths, price_tenths) ==
  LET rate == Get(yield_rates, Lower(crop_type), 500)
      price == Get(prices, Lower(crop_type), 200)
      estimated_yield == IF is_organic THEN (area * rate * yield_tenths) \div 10
                         ELSE area * rate
      price_adjusted == IF is_organic THEN (price * price_tenths) \div 10 ELSE price
  IN [yield_tonnes |-> round2(estimated_yield, 1000),
      estimated_value |-> round2(estimated_yield * price_adjusted, 1000),
      per_hectare_yield |-> rate,
      unit |-> IF Lower(crop_type) \notin {s_pine, s_oak, s_eucalyptus}
               THEN "tonnes" ELSE "cubic_meters"]

(* the organic price left at the base price *)
calculate_yield_estimate_no_premium(area, crop_type, is_organic) ==
  yield_estimate_variant(area, crop_type, is_organic, 8, 10)

(* yields in 10^-5 t, the value in 10^-5 currency units, the rate in       *)
(* 10^-2 t/ha; prices are whole units and so are 1.3 times the prices      *)
calculate_yield_estimate(area, crop_type, is_organic) ==
  LET rate == Get(yield_rates, Lower(crop_type), 500)
      price == Get(prices, Lower(crop_type), 200)
      estimated_yield == IF is_organic THEN (area * rate * 8) \div 10
                         ELSE area * rate
      price_adjusted == IF is_organic THEN (price * 13) \div 10 ELSE price
  IN [yield_tonnes |-> round2(estimated_yield, 1000),
      estimated_value |-> round2(estimated_yield * price_adjusted, 1000),
      per_hectare_yield |-> rate,
      unit |-> IF Lower(crop_type) \notin {s_pine, s_oak, s_eucalyptus}
               THEN "tonnes" ELSE "cubic_meters"]

recommendations ==
  (1 :> [season |-> "Winter",
         activities |->
           <<"Plan crop rotation", "Order seeds", "Maintain equipment", "Prune fruit trees">>,
         crops_to_plant |->
           <<"Winter vegetables in greenhouse">>,
         forestry_tasks |->
           <<"Tree pruning", "Firewood preparation">>]) @@
  (2 :> [season |-> "Late Winter",
         activities |->
           <<"Prepare seedbeds", "Test soil", "Plan irrigation">>,
         crops_to_plant |->
           <<"Early potatoes", "Onions">>,
         forestry_tasks |->
           <<"Prepare for spring planting">>]) @@
  (3 :> [season |-> "Early Spring",
         activities |->
           <<"Start planting", "Apply fertilizers", "Prepare irrigation systems">>,
         crops_to_plant |->
           <<"Wheat", "Barley", "Peas", "Carrots">>,
         forestry_tasks |->
           <<"Plant new trees", "Check for winter damage">>]) @@
  (4 :> [season |-> "Spring",
         activities |->
           <<"Continue planting", "Weed control", "Pest monitoring">>,
         crops_to_plant |->
           <<"Corn", "Soybeans", "Cotton">>,
         forestry_tasks |->
           <<"Continue planting", "Mulching">>]) @@
  (5 :> [season |-> "Late Spring",
         activities |->
           <<"Irrigate regularly", "Fertilize", "Monitor pests">>,
         crops_to_plant |->
           <<"Vegetables", "Rice (paddies)">>,
         forestry_tasks |->
           <<"Monitor growth", "Pest control">>]) @@
  (6 :> [season |-> "Early Summer",
         activities |->
           <<"Intensive pest management", "Irrigation", "First harvests">>,
         crops_to_plant |->
           <<"Second crop vegetables">>,
         forestry_tasks |->
           <<"Fire prevention", "Thinning">>]) @@
  (7 :> [season |-> "Summer",
         activities |->
           <<"Harvest early crops", "Manage water carefully", "Store produce">>,
         crops_to_plant |->
           <<"Fall vegetables">>,
         forestry_tasks |->
           <<"Fire watch", "Irrigation if needed">>]) @@
  (8 :> [season |-> "Late Summer",
         activities |->
           <<"Continue harvesting", "Prepare for fall planting", "Soil amendments">>,
         crops_to_plant |->
           <<"Winter wheat", "Cover crops">>,
         forestry_tasks |->
           <<"Assess timber ready for harvest">>]) @@
  (9 :> [season |-> "Early Autumn",
         activities |->
           <<"Major harvest season", "Plant cover crops", "Soil testing">>,
         crops_to_plant |->
           <<"Garlic", "Winter rye", "Clover">>,
         forestry_tasks |->
           <<"Begin selective harvesting", "Seed collection">>]) @@
  (10 :> [season |-> "Autumn",
         activities |->
           <<"Complete harvests", "Prepare fields for winter", "Equipment maintenance">>,
         crops_to_plant |->
           <<"Winter crops">>,
         forestry_tasks |->
           <<"Harvesting season", "Plant deciduous trees">>]) @@
  (11 :> [season |-> "Late Autumn",
         activities |->
           <<"Final harvests", "Cover crops", "Winterize equipment">>,
         crops_to_plant |->
           <<"Greenhouse crops only">>,
         forestry_tasks |->
           <<"Complete harvesting", "Prepare for winter">>]) @@
  (12 :> [season |-> "Early Winter",
         activities |->
           <<"Planning for next year", "Record keeping", "Market planning">>,
         crops_to_plant |->
           <<"Indoor/greenhouse only">>,
         forestry_tasks |->
           <<"Planning", "Winter protection for young trees">>])

(* the entry of December for a month the table does not hold *)
get_season_recommendation_last(month) ==
  IF month \in DOMAIN recommendations THEN recommendations[month]
  ELSE recommendations[12]

(* recommendations.get(month, recommendations[1]), month given *)
get_season_recommendation(month) ==
  IF month \in DOMAIN recommendations THEN recommendations[month]
  ELSE recommendations[1]

emissions ==
  (s_wheat :> 50) @@ (s_corn :> 80) @@ (s_rice :> 150) @@ (s_potato :> 40) @@
  (s_soybean :> 30) @@ (s_cotton :> 70)

sequestration ==
  (s_pine :> 800) @@ (s_oak :> 650) @@ (s_eucalyptus :> 1500) @@ (s_teak :> 700) @@
  (s_bamboo :> 1200)

(* a dict of the footprint; a key the dict lacks is the empty sequence *)
Footprint(type, seq, emi, impact) ==
  [type |-> type, annual_sequestration |-> seq, annual_emissions |-> emi,
   unit |-> "tonnes_CO2_per_year", climate_impact |-> impact]

(* the type looked up as given, not lower-cased *)
calculate_carbon_footprint_as_given(area, crop_type) ==
  IF crop_type \in DOMAIN sequestration
  THEN Footprint("carbon_sink", <<round2(area * sequestration[crop_type], 1000)>>,
                 <<>>, "positive")
  ELSE Footprint("carbon_source", <<>>,
                 <<round2(area * Get(emissions, crop_type, 50), 1000)>>, "negative")

calculate_carbon_footprint(area, crop_type) ==
  LET crop_lower == Lower(crop_type)
  IN IF crop_lower \in DOMAIN sequestration
     THEN Footprint("carbon_sink", <<round2(area * sequestration[crop_lower], 1000)>>,
                    <<>>, "positive")
     ELSE LET emission_rate == Get(emissions, crop_lower, 50)
          IN Footprint("carbon_source", <<>>,
                       <<round2(area * emission_rate, 1000)>>, "negative")

UtilAreas == {4, 1000, 2500}

UtilTypes ==
  {s_wheat, s_corn, s_Corn, s_rice, s_potato, s_soybean, s_cotton, s_pine, s_PINE,
   s_oak, s_Oak, s_eucalyptus, s_teak, s_bamboo, s_mango}

(* the areas with every type, and 10 ha of wheat *)
UtilInputs == (UtilAreas \X UtilTypes) \cup {<<10000, s_wheat>>}

yield_estimate(area, crop_type, is_organic) ==
  /\ ret' = [op |-> "calculate_yield_estimate",
             arg |-> <<area, crop_type, is_organic>>,
             val |-> calculate_yield_estimate(area, crop_type, is_organic)]
  /\ UNCHANGED <<plants, ent, th>>

carbon_footprint(area, crop_type) ==
  /\ ret' = [op |-> "calculate_carbon_footprint", arg |-> <<area, crop_type>>,
             val |-> calculate_carbon_footprint(area, crop_type)]
  /\ UNCHANGED <<plants, ent, th>>

season_recommendation(month) ==
  /\ ret' = [op |-> "get_season_recommendation", arg |-> <<month>>,
             val |-> get_season_recommendation(month)]
  /\ UNCHANGED <<plants, ent, th>>

YieldEstimate ==
  \E i \in UtilInputs, o \in BOOLEAN : yield_estimate(i[1], i[2], o)

CarbonFootprint == \E i \in UtilInputs : carbon_footprint(i[1], i[2])

SeasonRecommendation == \E m \in Months : season_recommendation(m)

NextUtils ==
  \/ YieldEstimate
  \/ CarbonFootprint
  \/ SeasonRecommendation

SpecUtils == Init /\ [][NextUtils]_vars

----------------------------------------------------------------------------

(* Calls of the analyzer by several threads on one registry.  A call is    *)
(* cut where it reads the registry: each step below is one such read, with *)
(* the local computation that follows it.  th[t] is the frame of thread t. *)

MaxConc == 3

ConcAreas == {4, 100000}

(* the registry is filled before any thread calls the analyzer *)
ConcAdd ==
  /\ \A t \in Threads : th[t].pc = "idle"
  /\ Len(plants) < MaxConc
  /\ \/ \E a \in ConcAreas : add_crop("a", s_forestry, a, s_Oak)
     \/ add_crop("a", s_agriculture, 4, s_Oak)
  /\ UNCHANGED th

(* the step of thread t from frame th[t] to frame f *)
Step(t, f) ==
  /\ th' = [th EXCEPT ![t] = f]
  /\ UNCHANGED <<plants, ret, ent>>

(* thread t enters op; get_detailed_analysis begins with get_statistics,   *)
(* whose crops = get_all_crops() only takes a reference to the list        *)
call(t, op) ==
  /\ th[t].pc = "idle"
  /\ Step(t, [th[t] EXCEPT !.op = op, !.pc = "agriculture"])

(* the list taken out of the registry entity by entity while it is         *)
(* filtered                                                                *)
stat_agriculture_draining(t) ==
  /\ th[t].pc = "agriculture"
  /\ th' = [th EXCEPT ![t] = [th[t] EXCEPT
              !.agriculture = get_crops_by_type(plants, s_agriculture),
              !.pc = "forestry"]]
  /\ plants' = <<>>
  /\ UNCHANGED <<ret, ent>>

stat_agriculture(t) ==
  /\ th[t].pc = "agriculture"
  /\ Step(t, [th[t] EXCEPT
                !.agriculture = get_crops_by_type(plants, s_agriculture),
                !.pc = "forestry"])

stat_forestry(t) ==
  /\ th[t].pc = "forestry"
  /\ Step(t, [th[t] EXCEPT
                !.forestry = get_crops_by_type(plants, s_forestry),
                !.pc = "total_crops"])

(* len(crops): crops is the list of the registry itself *)
stat_total_crops(t) ==
  /\ th[t].pc = "total_crops"
  /\ Step(t, [th[t] EXCEPT !.total_crops = Len(get_all_crops(plants)),
                           !.pc = "total_area"])

stat_total_area(t) ==
  /\ th[t].pc = "total_area"
  /\ Step(t, [th[t] EXCEPT !.total_area = round2(get_total_area(plants), 10),
                           !.pc = "areas"])

(* the areas of the two filtered lists *)
stat_areas(t) ==
  /\ th[t].pc = "areas"
  /\ LET agriculture == th[t].agriculture
         forestry == th[t].forestry
     IN Step(t, [th[t] EXCEPT
                   !.agriculture_area =
                     round2(SumSeq([i \in 1..Len(agriculture) |-> agriculture[i].area]), 10),
                   !.forestry_area =
                     round2(SumSeq([i \in 1..Len(forestry) |-> forestry[i].area]), 10),
                   !.pc = "total_yield"])

(* the last entry of the dict; get_statistics returns it, to its caller or *)
(* into stats of get_detailed_analysis                                     *)
stat_total_yield(t) ==
  /\ th[t].pc = "total_yield"
  /\ LET stats == [total_crops |-> th[t].total_crops,
                   total_area |-> th[t].total_area,
                   agriculture_count |-> Len(th[t].agriculture),
                   forestry_count |-> Len(th[t].forestry),
                   agriculture_area |-> th[t].agriculture_area,
                   forestry_area |-> th[t].forestry_area,
                   total_yield_estimate |->
                     round2(get_total_yield_estimate(plants), 1000)]
     IN IF th[t].op = "get_statistics"
        THEN Step(t, [th[t] EXCEPT !.stats = <<stats>>, !.result = <<stats>>,
                                   !.pc = "done"])
        ELSE Step(t, [th[t] EXCEPT !.stats = <<stats>>, !.pc = "crops_detail"])

(* the analysis returned by thread t with the recommendations recs *)
Analysis(t, detail, recs, risk) ==
  [statistics |-> th[t].stats[1], crops_detail |-> detail,
   recommendations |-> recs, risk_assessment |-> risk,
   carbon_sequestration |->
     IF th[t].total_carbon = <<>> THEN <<>>
     ELSE <<round2(th[t].total_carbon[1], 1000)>>]

(* the recommendations made before the diversification check *)
RecsSoFar(t) ==
  LET stats == th[t].stats[1]
  IN (IF stats.agriculture_count > 0 /\ stats.forestry_count = 0
      THEN <<REC_ADD_FORESTRY>> ELSE <<>>)
     \o (IF stats.forestry_count > 0
         THEN <<REC_CARBON(round2(th[t].total_carbon[1], 1000))>> ELSE <<>>)
     \o (IF stats.total_area > 100000 THEN <<REC_PRECISION>> ELSE <<>>)

(* [c.to_dict() for c in crops], then the tests on stats up to the next    *)
(* read of the registry                                                    *)
ana_crops_detail(t) ==
  /\ th[t].pc = "crops_detail"
  /\ LET crops == get_all_crops(plants)
         detail == [i \in 1..Len(crops) |-> to_dict(crops, i)]
         stats == th[t].stats[1]
     IN IF stats.total_area = 0
        THEN Step(t, [th[t] EXCEPT
                        !.crops_detail = detail,
                        !.result = <<Analysis(t, detail, <<REC_START>>, "low")>>,
                        !.pc = "done"])
        ELSE Step(t, [th[t] EXCEPT
                        !.crops_detail = detail,
                        !.pc = IF stats.forestry_count > 0 THEN "carbon"
                               ELSE "diversify"])

(* forestry_plants = get_crops_by_type('forestry') and the sum over it *)
ana_carbon(t) ==
  /\ th[t].pc = "carbon"
  /\ LET forestry_plants == get_crops_by_type(plants, s_forestry)
         total_carbon ==
           SumSeq([i \in 1..Len(forestry_plants) |->
                     IF forestry_plants[i].cls = "Forest"
                     THEN get_carbon_sequestration(forestry_plants[i]) ELSE 0])
     IN Step(t, [th[t] EXCEPT !.total_carbon = <<total_carbon>>,
                              !.pc = "diversify"])

(* if len(crops) == 1 *)
ana_diversify(t) ==
  /\ th[t].pc = "diversify"
  /\ IF Len(get_all_crops(plants)) = 1
     THEN Step(t, [th[t] EXCEPT
                     !.result = <<Analysis(t, th[t].crops_detail,
                                           RecsSoFar(t) \o <<REC_DIVERSIFY>>,
                                           "medium")>>,
                     !.pc = "done"])
     ELSE Step(t, [th[t] EXCEPT !.pc = "diversify_3"])

(* elif len(crops) >= 3 *)
ana_diversify_3(t) ==
  /\ th[t].pc = "diversify_3"
  /\ LET recs == IF Len(get_all_crops(plants)) >= 3
                 THEN RecsSoFar(t) \o <<REC_GOOD>> ELSE RecsSoFar(t)
     IN Step(t, [th[t] EXCEPT
                   !.result = <<Analysis(t, th[t].crops_detail, recs, "low")>>,
                   !.pc = "done"])

Call == \E t \in Threads, op \in {"get_statistics", "get_detailed_analysis"} : call(t, op)

StatAgriculture == \E t \in Threads : stat_agriculture(t)

StatForestry == \E t \in Threads : stat_forestry(t)

StatTotalCrops == \E t \in Threads : stat_total_crops(t)

StatTotalArea == \E t \in Threads : stat_total_area(t)

StatAreas == \E t \in Threads : stat_areas(t)

StatTotalYield == \E t \in Threads : stat_total_yield(t)

AnaCropsDetail == \E t \in Threads : ana_crops_detail(t)

AnaCarbon == \E t \in Threads : ana_carbon(t)

AnaDiversify == \E t \in Threads : ana_diversify(t)

AnaDiversify3 == \E t \in Threads : ana_diversify_3(t)

NextConc ==
  \/ ConcAdd
  \/ Call
  \/ StatAgriculture
  \/ StatForestry
  \/ StatTotalCrops
  \/ StatTotalArea
  \/ StatAreas
  \/ StatTotalYield
  \/ AnaCropsDetail
  \/ AnaCarbon
  \/ AnaDiversify
  \/ AnaDiversify3

SpecConc == Init /\ [][NextConc]_vars

----------------------------------------------------------------------------

(* Calls of the analyzer while other threads add to the registry or remove *)
(* from it: a thread makes one call, of the analyzer or of the manager,    *)
(* and a call of the manager is one step.                                  *)

(* thread t calls add_crop("a", plant_type, area, "Oak") *)
race_add(t, plant_type, area) ==
  /\ th[t].pc = "idle"
  /\ Len(plants) < MaxConc
  /\ Len(plants) < MaxPlants
  /\ LET plant == IF Lower(plant_type) = s_agriculture THEN NewCrop("a", area, s_Oak)
                  ELSE IF Lower(plant_type) = s_forestry THEN NewForest("a", area, s_Oak)
                  ELSE NewCrop("a", area, s_Oak)
     IN /\ plants' = Append(plants, plant)
        /\ ret' = [op |-> "add_crop", arg |-> plant_type, val |-> plant]
  /\ th' = [th EXCEPT ![t] = [th[t] EXCEPT !.op = "add_crop", !.pc = "done"]]
  /\ UNCHANGED ent

(* thread t calls remove_crop("a"): the first entity of that name goes *)
race_remove(t) ==
  /\ th[t].pc = "idle"
  /\ LET hits == {i \in 1..Len(plants) : plants[i].name = "a"}
     IN IF hits # {}
        THEN /\ plants' = DelAt(plants, CHOOSE h \in hits : \A g \in hits : h <= g)
             /\ ret' = [op |-> "remove_crop", arg |-> <<"a">>, val |-> TRUE]
        ELSE /\ plants' = plants
             /\ ret' = [op |-> "remove_crop", arg |-> <<"a">>, val |-> FALSE]
  /\ th' = [th EXCEPT ![t] = [th[t] EXCEPT !.op = "remove_crop", !.pc = "done"]]
  /\ UNCHANGED ent

RaceAdd ==
  \E t \in Threads :
    \/ \E a \in ConcAreas : race_add(t, s_forestry, a)
    \/ race_add(t, s_agriculture, 4)

RaceRemove == \E t \in Threads : race_remove(t)

NextRace ==
  \/ ConcAdd
  \/ Call
  \/ StatAgriculture
  \/ StatForestry
  \/ StatTotalCrops
  \/ StatTotalArea
  \/ StatAreas
  \/ StatTotalYield
  \/ AnaCropsDetail
  \/ AnaCarbon
  \/ AnaDiversify
  \/ AnaDiversify3
  \/ RaceAdd
  \/ RaceRemove

SpecRace == Init /\ [][NextRace]_vars

----------------------------------------------------------------------------

(* Properties *)

Indices == 1..Len(plants)

FiveStatuses == {"planted", "growing", "harvesting", "harvested", "dormant"}

(* C1: every entity a registry holds has area > 0, from the moment add_crop *)
(* creates it.  The constructor stores the area it is given unchecked, so   *)
(* the code breaks this: add_crop("a", "agriculture", 0).                   *)
C1_AreaPositive == \A i \in Indices : plants[i].area > 0

(* C2: assigning area a value <= 0 raises and leaves the entity as it was;  *)
(* assigning a value > 0 succeeds and changes the area and nothing else.    *)
C2_AreaSetter ==
  [][ret'.op = "set_area" =>
       LET v == ret'.arg[1]
       IN IF v <= 0
          THEN ret'.val = "ValueError" /\ ent' = ent
          ELSE /\ ret'.val = "None"
               /\ ent'.area = v
               /\ ent'.name = ent.name
               /\ ent'.status = ent.status
               /\ ent'.subtype = ent.subtype
               /\ ent'.cls = ent.cls
               /\ ent'.is_organic = ent.is_organic]_vars

(* a rejected assignment of a non-positive area to an entity whose status   *)
(* is no longer the default                                                 *)
C2_Witness ==
  /\ ret.op = "set_area"
  /\ ret.arg[1] <= 0
  /\ ret.val = "ValueError"
  /\ ent.area > 0
  /\ ent.status = "growing"

(* C3: the status is "planted" right after construction, is always one of   *)
(* the five statuses, and an assignment of any other value raises and       *)
(* leaves the status as it was, while one of the five is taken over.        *)
C3_StatusEnum ==
  /\ [](ent # NoEnt =>
          /\ ent.status \in FiveStatuses
          /\ (ret.op \in {"Crop", "Forest", "Agriculture"} => ent.status = "planted"))
  /\ [][ret'.op = "set_status" =>
          LET v == ret'.arg[1]
          IN IF v \in FiveStatuses
             THEN ret'.val = "None" /\ ent' = [ent EXCEPT !.status = v]
             ELSE ret'.val = "ValueError" /\ ent' = ent]_vars

(* a rejected assignment of "Planted" to an entity that is harvesting       *)
C3_Witness ==
  /\ ret.op = "set_status"
  /\ ret.arg[1] = "Planted"
  /\ ret.val = "ValueError"
  /\ ent.status = "harvesting"

(* The tables as the claim lists them, in hundredths *)
C4_CropRate(sub) ==
  CASE sub = s_wheat -> 350 [] sub = s_corn -> 1000 [] sub = s_rice -> 450
    [] sub = s_potato -> 4000 [] sub = s_soybean -> 280 [] sub = s_cotton -> 180
    [] OTHER -> 500

C4_ForestRate(sub) ==
  CASE sub = s_pine -> 1500 [] sub = s_oak -> 800 [] sub = s_eucalyptus -> 2500
    [] sub = s_teak -> 1000 [] sub = s_bamboo -> 2000
    [] OTHER -> 1200

(* the lowercase form of each string a constructor is given in this model   *)
C4_Lowered(sub) ==
  CASE sub = s_Corn -> s_corn [] sub = s_PINE -> s_pine [] OTHER -> sub

(* C4: a Crop or Forest with area > 0 estimates area * rate of its          *)
(* lowercased subtype in the table of its class, and area * the default     *)
(* rate for every other subtype, whatever the letter case it was given in.  *)
C4_YieldTable ==
  /\ (ret.op \in {"Crop", "Forest"} => ent.subtype = C4_Lowered(ret.arg))
  /\ (ret.op = "get_yield_estimate" /\ ent.area > 0 =>
        /\ (ent.cls = "Crop" => ret.val = ent.area * C4_CropRate(ent.subtype))
        /\ (ent.cls = "Forest" => ret.val = ent.area * C4_ForestRate(ent.subtype)))

(* the estimate of a Crop whose subtype is in no table *)
C4_Witness ==
  /\ ret.op = "get_yield_estimate"
  /\ ent.cls = "Crop"
  /\ ent.subtype = s_mango
  /\ ent.area = 125
  /\ ret.val = 62500

(* C5: an organic Agriculture estimates 0.8 times what the non-organic one  *)
(* of the same area and subtype estimates; its market value is its estimate *)
(* times the price of the subtype times 1.3, that of the non-organic one    *)
(* its estimate times the price; an unknown subtype has the default price.  *)
C5_Organic ==
  LET twin == [ent EXCEPT !.is_organic = FALSE]
      price == IF ent.subtype \in DOMAIN base_prices
               THEN base_prices[ent.subtype] ELSE 300
  IN /\ (ret.op = "get_yield_estimate" /\ ent.cls = "Agriculture" /\ ent.is_organic =>
           10 * ret.val = 8 * get_yield_estimate(twin))
     /\ (ret.op = "get_yield_estimate" /\ ent.cls = "Agriculture" /\ ~ent.is_organic =>
           ret.val = ent.area * C4_CropRate(ent.subtype))
     /\ (ret.op = "get_market_value" /\ ent.is_organic =>
           10 * ret.val = get_yield_estimate(ent) * price * 13)
     /\ (ret.op = "get_market_value" /\ ~ent.is_organic =>
           ret.val = get_yield_estimate(ent) * price)

(* the market value of an organic Agriculture of unknown subtype:           *)
(* 0.125 ha * 5.0 * 0.8 * 300 * 1.3 = 195                                   *)
C5_Witness ==
  /\ ret.op = "get_market_value"
  /\ ent.is_organic
  /\ ent.subtype = s_mango
  /\ ent.area = 125
  /\ ret.val = 19500000

(* C6: add_crop takes every kind string: the new entity is a Forest (type  *)
(* forestry) exactly when the kind is "forestry" in some letter case and a  *)
(* Crop (type agriculture) otherwise; it is appended, it is what add_crop   *)
(* returns, and the entities already there keep their place.                *)
C6_AddPlant ==
  [][ret'.op = "add_crop" =>
       LET new == ret'.val
           isForestry == ret'.arg \in {s_forestry, s_Forestry}
       IN /\ Len(plants') = Len(plants) + 1
          /\ SubSeq(plants', 1, Len(plants)) = plants
          /\ plants'[Len(plants')] = new
          /\ (isForestry => new.cls = "Forest" /\ get_type(new) = s_forestry)
          /\ (~isForestry => new.cls = "Crop" /\ get_type(new) = s_agriculture)]_vars

(* add_crop("orchard") has put a Crop behind a Forest that "Forestry" made  *)
C6_Witness ==
  /\ ret.op = "add_crop"
  /\ ret.arg = s_orchard
  /\ Len(plants) = 2
  /\ plants[1].cls = "Forest"
  /\ plants[2] = ret.val
  /\ ret.val.cls = "Crop"

(* C7: remove_crop(name) deletes the first entity of exactly that name and  *)
(* returns TRUE, every other entity, later ones of the same name included,  *)
(* staying in order; with no such entity it returns FALSE and changes       *)
(* nothing.                                                                 *)
C7_RemoveFirst ==
  [][ret'.op = "remove_crop" =>
       LET n == ret'.arg[1]
       IN IF \A i \in Indices : plants[i].name # n
          THEN ret'.val = FALSE /\ plants' = plants
          ELSE /\ ret'.val = TRUE
               /\ \E i \in Indices :
                    /\ plants[i].name = n
                    /\ \A j \in 1..(i - 1) : plants[j].name # n
                    /\ Len(plants') = Len(plants) - 1
                    /\ \A j \in 1..(i - 1) : plants'[j] = plants[j]
                    /\ \A j \in i..(Len(plants) - 1) : plants'[j] = plants[j + 1]]_vars

(* a removal that left a later entity of the same name, and one whose name  *)
(* differs only in letter case, in the registry                             *)
C7_Witness ==
  /\ ret.op = "remove_crop"
  /\ ret.val = TRUE
  /\ ret.arg = <<"a">>
  /\ Len(plants) = 2
  /\ plants[1].name = "A"
  /\ plants[2].name = "a"

(* the sum of f over a finite set of indices *)
RECURSIVE C8_SumOver(_, _)
C8_SumOver(S, f) ==
  IF S = {} THEN 0
  ELSE LET i == CHOOSE j \in S : TRUE IN f[i] + C8_SumOver(S \ {i}, f)

(* C8: get_total_area returns the sum of the areas of the entities now in   *)
(* the registry and get_total_yield_estimate the sum of their estimates;    *)
(* both return 0 on an empty registry.                                      *)
C8_Totals ==
  /\ (ret.op = "get_total_area" =>
        /\ ret.val = C8_SumOver(Indices, [i \in Indices |-> plants[i].area])
        /\ (plants = <<>> => ret.val = 0))
  /\ (ret.op = "get_total_yield_estimate" =>
        /\ ret.val = C8_SumOver(Indices,
                       [i \in Indices |->
                          plants[i].area * (IF plants[i].cls = "Forest"
                                            THEN C4_ForestRate(plants[i].subtype)
                                            ELSE C4_CropRate(plants[i].subtype))])
        /\ (plants = <<>> => ret.val = 0))

(* the total of three entities, two of them of the same area *)
C8_Witness ==
  /\ ret.op = "get_total_area"
  /\ Len(plants) = 3
  /\ plants[1].area = 4
  /\ plants[2].area = 4
  /\ plants[3].area = 100000
  /\ ret.val = 100008

(* r is x rounded to 2 decimals: a multiple of step nearest to x (in a tie  *)
(* either neighbour)                                                        *)
C9_Rounded(r, x, step) ==
  /\ r % step = 0
  /\ 2 * (r - x) <= step
  /\ 2 * (x - r) <= step

C9_OfType(type) == {i \in Indices : get_type(plants[i]) = type}

(* C9: get_statistics counts the entities and those of either type, and     *)
(* gives the total area, the area of either type and the total estimate,    *)
(* each rounded to 2 decimals; the map is the same on every call on the     *)
(* same registry.                                                           *)
C9_Statistics ==
  ret.op = "get_statistics" =>
    LET agri == C9_OfType(s_agriculture)
        forest == C9_OfType(s_forestry)
        area == [i \in Indices |-> plants[i].area]
        yield == [i \in Indices |-> get_yield_estimate(plants[i])]
    IN /\ ret.val.total_crops = Len(plants)
       /\ ret.val.agriculture_count = Cardinality(agri)
       /\ ret.val.forestry_count = Cardinality(forest)
       /\ C9_Rounded(ret.val.total_area, C8_SumOver(Indices, area), 10)
       /\ C9_Rounded(ret.val.agriculture_area, C8_SumOver(agri, area), 10)
       /\ C9_Rounded(ret.val.forestry_area, C8_SumOver(forest, area), 10)
       /\ C9_Rounded(ret.val.total_yield_estimate, C8_SumOver(Indices, yield), 1000)
       /\ ret.val = get_statistics(plants)

(* statistics of a Crop of 0.004 ha and a Forest of 100.004 ha in all:      *)
(* total area 100.008 is given as 100.01                                    *)
C9_Witness ==
  /\ ret.op = "get_statistics"
  /\ Len(plants) = 3
  /\ get_total_area(plants) = 100008
  /\ ret.val.total_area = 100010
  /\ ret.val.agriculture_count = 1
  /\ ret.val.forestry_count = 2
  /\ ret.val.agriculture_area = 0
  /\ ret.val.forestry_area = 100000

(* C10: no operation of the analyzer changes the registry, and a write to a *)
(* record of crops_detail does not reach the entity it was taken from.      *)
C10_AnalyzerReadOnly ==
  [][ret'.op \in {"get_statistics", "get_detailed_analysis",
                  "get_seasonal_advice", "write_detail"} => plants' = plants]_vars

(* a record of crops_detail was overwritten and differs from its entity *)
C10_Witness ==
  /\ ret.op = "write_detail"
  /\ Len(plants) = 2
  /\ Len(ret.val.crops_detail) = 2
  /\ ret.val.crops_detail[2].area = 7
  /\ plants[2].area = 100000
  /\ plants[2].status = "planted"

C11_Recs == ret.val.recommendations

C11_Has(rec) == \E k \in 1..Len(C11_Recs) : C11_Recs[k] = rec

(* C11 as claimed: one entity of nonzero total area gives "medium" and the  *)
(* diversify recommendation; three or more entities give "low" and the      *)
(* positive note; two entities give "low" and neither.  An entity of        *)
(* 0.004 ha has a nonzero area that the statistics round to 0.0, and the    *)
(* analysis then stops at the start recommendation.                         *)
C11_AsClaimed ==
  ret.op = "get_detailed_analysis" =>
    /\ (Len(plants) = 1 /\ get_total_area(plants) # 0 =>
          ret.val.risk_assessment = "medium" /\ C11_Has(REC_DIVERSIFY))
    /\ (Len(plants) >= 3 =>
          ret.val.risk_assessment = "low" /\ C11_Has(REC_GOOD))
    /\ (Len(plants) = 2 =>
          /\ ret.val.risk_assessment = "low"
          /\ ~C11_Has(REC_DIVERSIFY)
          /\ ~C11_Has(REC_GOOD))

(* C11, amended: when the total area the statistics report (rounded to 2    *)
(* decimals) is not 0, one entity gives "medium" and the diversify          *)
(* recommendation and three or more give "low" and the positive note; two   *)
(* entities give "low" and neither, whatever the area.                      *)
C11_Diversification ==
  ret.op = "get_detailed_analysis" =>
    /\ (Len(plants) = 1 /\ ret.val.statistics.total_area # 0 =>
          /\ ret.val.risk_assessment = "medium"
          /\ C11_Has(REC_DIVERSIFY)
          /\ ~C11_Has(REC_GOOD))
    /\ (Len(plants) >= 3 /\ ret.val.statistics.total_area # 0 =>
          /\ ret.val.risk_assessment = "low"
          /\ C11_Has(REC_GOOD)
          /\ ~C11_Has(REC_DIVERSIFY))
    /\ (Len(plants) = 2 =>
          /\ ret.val.risk_assessment = "low"
          /\ ~C11_Has(REC_DIVERSIFY)
          /\ ~C11_Has(REC_GOOD))

(* the analysis of three entities of 0.004 ha: the total 0.012 is reported  *)
(* as 0.01 and the positive note is given                                   *)
C11_Witness ==
  /\ ret.op = "get_detailed_analysis"
  /\ Len(plants) = 3
  /\ get_total_area(plants) = 12
  /\ ret.val.statistics.total_area = 10
  /\ ret.val.risk_assessment = "low"
  /\ C11_Has(REC_GOOD)

(* C12: when the statistics report a total area of 0 the recommendations    *)
(* are the start recommendation alone, the risk is "low" and there is no    *)
(* carbon_sequestration key, whatever entities the registry holds; when     *)
(* they report another total the start recommendation is not given.         *)
C12_StartOnly ==
  ret.op = "get_detailed_analysis" =>
    IF ret.val.statistics.total_area = 0
    THEN /\ ret.val.recommendations = <<REC_START>>
         /\ ret.val.risk_assessment = "low"
         /\ ret.val.carbon_sequestration = <<>>
    ELSE \A k \in 1..Len(ret.val.recommendations) :
           ret.val.recommendations[k] # REC_START

(* the analysis of a lone Forest of 0.004 ha, reported as 0.0: no carbon    *)
(* figure, no diversify recommendation                                      *)
C12_Witness ==
  /\ ret.op = "get_detailed_analysis"
  /\ Len(plants) = 1
  /\ plants[1].cls = "Forest"
  /\ plants[1].area = 4
  /\ ret.val.statistics.forestry_count = 1
  /\ ret.val.statistics.total_area = 0
  /\ ret.val.recommendations = <<REC_START>>

(* the place of a recommendation in the fixed order *)
C14_Rank(rec) ==
  CASE rec = REC_ADD_FORESTRY -> 1
    [] rec.text = REC_CARBON(0).text -> 2
    [] rec = REC_PRECISION -> 3
    [] rec \in {REC_DIVERSIFY, REC_GOOD} -> 4
    [] OTHER -> 0

(* C14: the recommendations come in the order add-forestry, carbon,         *)
(* precision agriculture, diversification, each at most once; the           *)
(* precision recommendation is there exactly when the reported total area   *)
(* is not 0 and strictly above 100.                                         *)
C14_Order ==
  ret.op = "get_detailed_analysis" =>
    LET recs == ret.val.recommendations
    IN /\ \A j, k \in 1..Len(recs) :
            j < k => C14_Rank(recs[j]) < C14_Rank(recs[k])
       /\ (\E k \in 1..Len(recs) : recs[k] = REC_PRECISION)
            <=> (ret.val.statistics.total_area # 0
                 /\ ret.val.statistics.total_area > 100000)

(* 100.008 ha in three entities, reported as 100.01: carbon, precision and  *)
(* the positive note, in that order                                         *)
C14_Witness ==
  /\ ret.op = "get_detailed_analysis"
  /\ Len(plants) = 3
  /\ ret.val.statistics.total_area = 100010
  /\ Len(ret.val.recommendations) = 3
  /\ ret.val.recommendations[1].text = REC_CARBON(0).text
  /\ ret.val.recommendations[2] = REC_PRECISION
  /\ ret.val.recommendations[3] = REC_GOOD

(* the carbon rate of a tree type, in 10^-2 t CO2 per hectare and year *)
C13_CarbonRate(sub) ==
  CASE sub = s_pine -> 800
    [] sub = s_oak -> 650
    [] sub = s_eucalyptus -> 1500
    [] sub = s_teak -> 700
    [] sub = s_bamboo -> 1200
    [] OTHER -> 800

C13_Forests == {i \in Indices : plants[i].cls = "Forest"}

(* C13: when the reported total area is not 0 and there are forestry        *)
(* entities, carbon_sequestration is the sum of area x carbon rate over the *)
(* forestry entities, rounded to 2 decimals, and exactly one recommendation *)
(* cites that figure; FieldA (10 ha wheat) with WoodsB (5 ha pine) gives    *)
(* carbon 40.0, total area 15.0 and total yield 110.0.                      *)
C13_Carbon ==
  ret.op = "get_detailed_analysis" =>
    LET stats == ret.val.statistics
        recs == ret.val.recommendations
        carbon == ret.val.carbon_sequestration
        citing == {k \in 1..Len(recs) : recs[k].text = REC_CARBON(0).text}
    IN /\ (stats.total_area # 0 /\ stats.forestry_count > 0 =>
             /\ Len(carbon) = 1
             /\ C9_Rounded(carbon[1],
                           C8_SumOver(C13_Forests,
                                      [i \in C13_Forests |->
                                         plants[i].area * C13_CarbonRate(plants[i].subtype)]),
                           1000)
             /\ Cardinality(citing) = 1
             /\ \A k \in citing : recs[k].figure = carbon)
       /\ (plants = <<NewCrop("FieldA", 10000, s_wheat), NewForest("WoodsB", 5000, s_pine)>> =>
             /\ carbon = <<4000000>>
             /\ stats.total_area = 15000
             /\ get_total_area(plants) = 15000
             /\ stats.total_yield_estimate = 11000000
             /\ get_total_yield_estimate(plants) = 11000000)

(* the analysis of 5 ha of oak (given as "Oak") with 10 ha of bamboo:       *)
(* 5 x 6.5 + 10 x 12.0 = 152.5                                              *)
C13_Witness ==
  /\ ret.op = "get_detailed_analysis"
  /\ Len(plants) = 2
  /\ plants[1].cls = "Forest" /\ plants[1].subtype = s_oak /\ plants[1].area = 5000
  /\ plants[2].cls = "Forest" /\ plants[2].subtype = s_bamboo /\ plants[2].area = 10000
  /\ ret.val.carbon_sequestration = <<15250000>>
  /\ \E k \in 1..Len(ret.val.recommendations) :
       ret.val.recommendations[k] = REC_CARBON(15250000)

(* the example registry of the claim analysed *)
C13_Example ==
  /\ ret.op = "get_detailed_analysis"
  /\ plants = <<NewCrop("FieldA", 10000, s_wheat), NewForest("WoodsB", 5000, s_pine)>>
  /\ ret.val.carbon_sequestration = <<4000000>>

(* C15: get_seasonal_advice gives months 12, 1, 2 the winter string, 3..5   *)
(* the spring one, 6..8 the summer one, 9..11 the autumn one, and every     *)
(* month outside 1..12 the generic string, which no month of 1..12 gets;    *)
(* the five strings differ.                                                 *)
C15_SeasonalAdvice ==
  /\ Cardinality({ADVICE_WINTER, ADVICE_SPRING, ADVICE_SUMMER, ADVICE_AUTUMN,
                  ADVICE_GENERIC}) = 5
  /\ (ret.op = "get_seasonal_advice" =>
        LET m == ret.arg[1]
        IN /\ (m \in {12, 1, 2} => ret.val = ADVICE_WINTER)
           /\ (m \in {3, 4, 5} => ret.val = ADVICE_SPRING)
           /\ (m \in {6, 7, 8} => ret.val = ADVICE_SUMMER)
           /\ (m \in {9, 10, 11} => ret.val = ADVICE_AUTUMN)
           /\ (m \notin 1..12 <=> ret.val = ADVICE_GENERIC))

(* the advice of December: the string of January *)
C15_Witness ==
  /\ ret.op = "get_seasonal_advice"
  /\ ret.arg = <<12>>
  /\ ret.val = ADVICE_WINTER
  /\ ret.val = get_seasonal_advice(1)

(* the lowercase form of each type string the utility functions are given   *)
C16_Lowered(t) ==
  CASE t = s_Corn -> s_corn [] t = s_PINE -> s_pine [] t = s_Oak -> s_oak
    [] OTHER -> t

C16_Rate(k) ==
  CASE k = s_wheat -> 350 [] k = s_corn -> 1000 [] k = s_rice -> 450
    [] k = s_potato -> 4000 [] k = s_soybean -> 280 [] k = s_cotton -> 180
    [] k = s_pine -> 1500 [] k = s_oak -> 800 [] k = s_eucalyptus -> 2500
    [] OTHER -> 500

C16_Price(k) ==
  CASE k = s_wheat -> 250 [] k = s_corn -> 200 [] k = s_rice -> 350
    [] k = s_potato -> 150 [] k = s_soybean -> 400 [] k = s_cotton -> 1500
    [] k = s_pine -> 100 [] k = s_oak -> 150 [] k = s_eucalyptus -> 80
    [] OTHER -> 200

(* C16: calculate_yield_estimate takes the rate and the price of the        *)
(* lowercased type from its two tables, 5.0 and 200 for any other type;     *)
(* organic multiplies the yield by 0.8 and the price by 1.3; it returns the *)
(* yield and yield x price rounded to 2 decimals, the unadjusted rate, and  *)
(* unit "cubic_meters" exactly for pine, oak and eucalyptus; (10, "wheat",  *)
(* organic) gives 28.0 and 9100.0.  tenfold_yield and tenfold_price are     *)
(* ten times the adjusted yield and price, whole numbers of tens here.      *)
C16_YieldEstimate ==
  ret.op = "calculate_yield_estimate" =>
    LET area == ret.arg[1]
        k == C16_Lowered(ret.arg[2])
        is_organic == ret.arg[3]
        tenfold_yield == area * C16_Rate(k) * (IF is_organic THEN 8 ELSE 10)
        tenfold_price == C16_Price(k) * (IF is_organic THEN 13 ELSE 10)
    IN /\ tenfold_yield % 10 = 0
       /\ tenfold_price % 10 = 0
       /\ C9_Rounded(ret.val.yield_tonnes, tenfold_yield \div 10, 1000)
       /\ C9_Rounded(ret.val.estimated_value,
                     (tenfold_yield \div 10) * (tenfold_price \div 10), 1000)
       /\ ret.val.per_hectare_yield = C16_Rate(k)
       /\ ret.val.unit \in {"tonnes", "cubic_meters"}
       /\ (ret.val.unit = "cubic_meters" <=> k \in {s_pine, s_oak, s_eucalyptus})
       /\ (ret.arg = <<10000, s_wheat, TRUE>> =>
             /\ ret.val.yield_tonnes = 2800000
             /\ ret.val.estimated_value = 910000000)

(* the estimate of 10 ha of organic wheat *)
C16_Witness ==
  /\ ret.op = "calculate_yield_estimate"
  /\ ret.arg = <<10000, s_wheat, TRUE>>
  /\ ret.val.yield_tonnes = 2800000
  /\ ret.val.estimated_value = 910000000
  /\ ret.val.per_hectare_yield = 350
  /\ ret.val.unit = "tonnes"

C17_SequestrationRate(k) ==
  CASE k = s_pine -> 800 [] k = s_oak -> 650 [] k = s_eucalyptus -> 1500
    [] k = s_teak -> 700 [] k = s_bamboo -> 1200

C17_EmissionRate(k) ==
  CASE k = s_wheat -> 50 [] k = s_corn -> 80 [] k = s_rice -> 150
    [] k = s_potato -> 40 [] k = s_soybean -> 30 [] k = s_cotton -> 70
    [] OTHER -> 50

(* C17: calculate_carbon_footprint returns a carbon_sink map, positive,     *)
(* with annual_sequestration = area x sequestration rate rounded to 2       *)
(* decimals exactly when the lowercased type is pine, oak, eucalyptus, teak *)
(* or bamboo, and otherwise a carbon_source map, negative, with             *)
(* annual_emissions = area x emission rate (0.5 for a type the emissions    *)
(* table lacks); every map has exactly one of the two figures.              *)
C17_CarbonFootprint ==
  ret.op = "calculate_carbon_footprint" =>
    LET area == ret.arg[1]
        k == C16_Lowered(ret.arg[2])
        sink == k \in {s_pine, s_oak, s_eucalyptus, s_teak, s_bamboo}
        seq == ret.val.annual_sequestration
        emi == ret.val.annual_emissions
    IN /\ (ret.val.type = "carbon_sink" <=> sink)
       /\ (sink =>
             /\ ret.val.climate_impact = "positive"
             /\ Len(seq) = 1
             /\ C9_Rounded(seq[1], area * C17_SequestrationRate(k), 1000)
             /\ emi = <<>>)
       /\ (~sink =>
             /\ ret.val.type = "carbon_source"
             /\ ret.val.climate_impact = "negative"
             /\ Len(emi) = 1
             /\ C9_Rounded(emi[1], area * C17_EmissionRate(k), 1000)
             /\ seq = <<>>)
       /\ Len(seq) + Len(emi) = 1

(* 1 ha of "PINE": a sink of 8.0 t *)
C17_Witness ==
  /\ ret.op = "calculate_carbon_footprint"
  /\ ret.arg = <<1000, s_PINE>>
  /\ ret.val.type = "carbon_sink"
  /\ ret.val.annual_sequestration = <<800000>>
  /\ ret.val.annual_emissions = <<>>

C19_Season(m) ==
  CASE m = 1 -> "Winter" [] m = 2 -> "Late Winter" [] m = 3 -> "Early Spring"
    [] m = 4 -> "Spring" [] m = 5 -> "Late Spring" [] m = 6 -> "Early Summer"
    [] m = 7 -> "Summer" [] m = 8 -> "Late Summer" [] m = 9 -> "Early Autumn"
    [] m = 10 -> "Autumn" [] m = 11 -> "Late Autumn" [] m = 12 -> "Early Winter"

(* C19: get_season_recommendation returns the entry of the month for every  *)
(* month of 1..12, twelve season names all different, and the entry of      *)
(* month 1 (season "Winter") for every month outside 1..12.                 *)
C19_SeasonRecommendation ==
  /\ DOMAIN recommendations = 1..12
  /\ Cardinality({recommendations[m].season : m \in 1..12}) = 12
  /\ \A m \in 1..12 : recommendations[m].season = C19_Season(m)
  /\ (ret.op = "get_season_recommendation" =>
        LET month == ret.arg[1]
        IN IF month \in 1..12
           THEN /\ ret.val = recommendations[month]
                /\ ret.val.season = C19_Season(month)
           ELSE /\ ret.val = recommendations[1]
                /\ ret.val.season = "Winter")

(* month 13 asked for: the entry of January *)
C19_Witness ==
  /\ ret.op = "get_season_recommendation"
  /\ ret.arg = <<13>>
  /\ ret.val.season = "Winter"
  /\ ret.val.forestry_tasks = <<"Tree pruning", "Firewood preparation">>

(* the lowercase form of each kind string of this model *)
C18_Lowered(kind) == CASE kind = s_Forestry -> s_forestry [] OTHER -> kind

(* the places in the registry of the entities of the lowercased kind *)
C18_Places(ps, kind) ==
  {i \in 1..Len(ps) :
     \/ C18_Lowered(kind) = s_forestry /\ ps[i].cls = "Forest"
     \/ C18_Lowered(kind) = s_agriculture /\ ps[i].cls # "Forest"}

(* C18: get_crops_by_type returns, in insertion order, exactly the entities *)
(* whose type is the lowercased kind, nothing for a kind that is neither    *)
(* agriculture nor forestry, and leaves the registry as it was.             *)
C18_ByType ==
  [][ret'.op = "get_crops_by_type" =>
       LET S == C18_Places(plants, ret'.arg)
       IN /\ plants' = plants
          /\ Len(ret'.val) = Cardinality(S)
          /\ \A j \in 1..Len(ret'.val) :
               \E i \in S : /\ Cardinality({h \in S : h <= i}) = j
                            /\ ret'.val[j] = plants[i]
          /\ (C18_Lowered(ret'.arg) \notin {s_agriculture, s_forestry} =>
                ret'.val = <<>>)]_vars

(* "Forestry" asked of a registry of a teak and an oak forest: the two in    *)
(* the order they were added                                                *)
C18_Witness ==
  /\ ret.op = "get_crops_by_type"
  /\ ret.arg = s_Forestry
  /\ Len(plants) = 2
  /\ plants[1].cls = "Forest" /\ plants[1].subtype = s_teak
  /\ plants[2].cls = "Forest" /\ plants[2].subtype = s_oak
  /\ ret.val = <<plants[1], plants[2]>>

(* what the call of thread t returns when it runs alone on the registry *)
C20_Alone(t) ==
  IF th[t].op = "get_statistics" THEN get_statistics(plants)
  ELSE get_detailed_analysis(plants)

(* C20: get_statistics and get_detailed_analysis run by several threads at  *)
(* once on a registry that no one adds to or removes from: whatever the     *)
(* interleaving of their steps, each call returns what it returns when run  *)
(* alone on that registry, and no step of a call changes the registry.      *)
C20_ReadersSafe ==
  /\ [](\A t \in Threads : th[t].pc = "done" => th[t].result = <<C20_Alone(t)>>)
  /\ [][th' # th => plants' = plants]_vars

(* thread 1 has returned its analysis of two forests and a field, carbon    *)
(* figure included, while thread 2 is in the middle of get_statistics       *)
C20_Witness ==
  /\ Len(plants) = 3
  /\ th[1].op = "get_detailed_analysis"
  /\ th[1].pc = "done"
  /\ th[1].result[1].statistics.forestry_count = 2
  /\ th[1].result[1].carbon_sequestration # <<>>
  /\ Len(th[1].result[1].recommendations) = 3
  /\ th[2].op = "get_statistics"
  /\ th[2].pc = "total_area"

(* C21: a returned analysis agrees with the statistics it carries, also     *)
(* when another thread's add_crop or remove_crop takes effect during the    *)
(* call: risk "medium" and the diversify recommendation exactly when        *)
(* total_crops = 1 (the total area not being 0), the positive note exactly  *)
(* when total_crops >= 3, the carbon figure that of the forestry entities   *)
(* counted in forestry_count, and as many crops_detail records as           *)
(* total_crops.  The code reads the registry again after the statistics     *)
(* are taken, so this fails under SpecRace.                                 *)
C21_SnapshotOnly ==
  \A t \in Threads :
    th[t].op = "get_detailed_analysis" /\ th[t].pc = "done" =>
      LET r == th[t].result[1]
          stats == r.statistics
          recs == r.recommendations
          counted == th[t].forestry
          has(rec) == \E k \in 1..Len(recs) : recs[k] = rec
      IN /\ Len(r.crops_detail) = stats.total_crops
         /\ (stats.total_area # 0 =>
               /\ (r.risk_assessment = "medium" <=> stats.total_crops = 1)
               /\ (has(REC_DIVERSIFY) <=> stats.total_crops = 1)
               /\ (has(REC_GOOD) <=> stats.total_crops >= 3))
         /\ (r.carbon_sequestration # <<>> =>
               /\ Len(counted) = stats.forestry_count
               /\ C9_Rounded(r.carbon_sequestration[1],
                             SumSeq([i \in 1..Len(counted) |->
                                       counted[i].area * C13_CarbonRate(counted[i].subtype)]),
                             1000))

(* C22: in every registry built by add_crop and remove_crop the statistics  *)
(* count every entity in exactly one of the two types: agriculture_count +  *)
(* forestry_count = total_crops, whatever kinds add_crop was given.         *)
C22_CountsAddUp ==
  /\ \A i \in Indices :
       (get_type(plants[i]) = s_agriculture) # (get_type(plants[i]) = s_forestry)
  /\ (ret.op = "get_statistics" =>
        /\ ret.val.agriculture_count + ret.val.forestry_count = ret.val.total_crops
        /\ ret.val.total_crops = Len(plants))
  /\ (ret.op = "get_detailed_analysis" =>
        ret.val.statistics.agriculture_count + ret.val.statistics.forestry_count
          = ret.val.statistics.total_crops)

(* the statistics of two fields and a forest *)
C22_Witness ==
  /\ ret.op = "get_statistics"
  /\ Len(plants) = 3
  /\ ret.val.total_crops = 3
  /\ ret.val.agriculture_count = 2
  /\ ret.val.forestry_count = 1

C23_Has(rec) ==
  \E k \in 1..Len(ret.val.recommendations) : ret.val.recommendations[k] = rec

C23_HasCarbon ==
  \E k \in 1..Len(ret.val.recommendations) :
    ret.val.recommendations[k].text = REC_CARBON(0).text

(* C23: the recommendations of get_detailed_analysis are never empty and    *)
(* never hold both the add-forestry and the carbon recommendation: with a   *)
(* reported total area of 0 they hold the start recommendation, otherwise   *)
(* add-forestry when forestry_count = 0 and carbon when forestry_count > 0, *)
(* one and not the other; the carbon_sequestration key is there exactly     *)
(* when the carbon recommendation is.                                       *)
C23_OneOfTwo ==
  ret.op = "get_detailed_analysis" =>
    LET stats == ret.val.statistics
    IN /\ ret.val.recommendations # <<>>
       /\ ~(C23_Has(REC_ADD_FORESTRY) /\ C23_HasCarbon)
       /\ (stats.total_area = 0 => C23_Has(REC_START))
       /\ (stats.total_area # 0 /\ stats.forestry_count = 0 =>
             C23_Has(REC_ADD_FORESTRY) /\ ~C23_HasCarbon)
       /\ (stats.total_area # 0 /\ stats.forestry_count > 0 =>
             C23_HasCarbon /\ ~C23_Has(REC_ADD_FORESTRY))
       /\ (ret.val.carbon_sequestration # <<>> <=> C23_HasCarbon)

(* a field and a forest analysed: the carbon recommendation alone *)
C23_Witness ==
  /\ ret.op = "get_detailed_analysis"
  /\ Len(plants) = 2
  /\ ret.val.statistics.agriculture_count = 1
  /\ ret.val.statistics.forestry_count = 1
  /\ ret.val.statistics.total_area # 0
  /\ Len(ret.val.recommendations) = 1
  /\ C23_HasCarbon
  /\ ret.val.carbon_sequestration # <<>>

(* the estimate of the registry from the tables, no adjustment applied *)
C24_Unadjusted ==
  C8_SumOver(Indices,
             [i \in Indices |->
                plants[i].area * (IF plants[i].cls = "Forest"
                                  THEN C4_ForestRate(plants[i].subtype)
                                  ELSE C4_CropRate(plants[i].subtype))])

(* C24: a registry filled by add_crop holds plain Crop and Forest entities  *)
(* only, none organic, so get_total_yield_estimate is the sum of area x     *)
(* unadjusted table rate and the statistics report that sum rounded; the    *)
(* 0.8 penalty enters no aggregate.                                         *)
C24_NoOrganic ==
  /\ \A i \in Indices : plants[i].cls \in {"Crop", "Forest"} /\ ~plants[i].is_organic
  /\ (ret.op = "add_crop" => ret.val.cls \in {"Crop", "Forest"} /\ ~ret.val.is_organic)
  /\ (ret.op = "get_total_yield_estimate" => ret.val = C24_Unadjusted)
  /\ (ret.op = "get_statistics" =>
        C9_Rounded(ret.val.total_yield_estimate, C24_Unadjusted, 1000))
  /\ (ret.op = "get_detailed_analysis" =>
        C9_Rounded(ret.val.statistics.total_yield_estimate, C24_Unadjusted, 1000))

(* the estimate of 10 ha of wheat and 5 ha of pine: 35 + 75, not 28 + 75 *)
C24_Witness ==
  /\ ret.op = "get_total_yield_estimate"
  /\ Len(plants) = 2
  /\ plants[1] = NewCrop("FieldA", 10000, s_wheat)
  /\ plants[2] = NewForest("WoodsB", 5000, s_pine)
  /\ ret.val = 11000000

====
